---- MODULE Spec2Model ----
(***************************************************************************)
(* Sound Loop: the local sound library store                               *)
(* (frontend/services/LocalSoundStorage.ts), the Player screen with its    *)
(* sleep timer (HomeScreen) and the playback of the Library screen         *)
(* (frontend/app/(tabs)/library.tsx).                                      *)
(*                                                                         *)
(* The store keeps no state in memory: everything lives in the AsyncStorage*)
(* slot 'local_sounds' (variable stored) and in the files of the private   *)
(* document directory (variable files).  A process restart therefore       *)
(* leaves the modelled state as it is.                                     *)
(*                                                                         *)
(* Each exported function is one action that runs the whole call.  The     *)
(* outcomes of the platform calls (AsyncStorage.getItem / setItem,         *)
(* FileSystem.copyAsync / deleteAsync) are inputs of the action: each may  *)
(* resolve or reject.                                                      *)
(*                                                                         *)
(* The screens' handlers are async functions.  Such a function runs        *)
(* without interruption up to its first await of a native call and from    *)
(* each await to the next; other handlers run in between.  One action      *)
(* invokes a handler and runs it to its first await, one action resumes    *)
(* it when the awaited call settles.  A handler sees the state values of   *)
(* the render it was created in; those values travel with its task.  The   *)
(* screens stay mounted.                                                   *)
(***************************************************************************)
EXTENDS Integers, Sequences, FiniteSets, Bags

VARIABLES
    stored,     \* value of the AsyncStorage key SOUNDS_KEY
    files,      \* uris of the files present in FileSystem.documentDirectory
    nextId,     \* the id generateId returns next
    last,       \* the most recent call: its arguments and what it returned
    faults,     \* number of platform calls that have rejected so far
    ledger,     \* history: entries the callers were told are stored
    intact,     \* history: sounds as saveSound returned them, neither
                \*          renamed nor deleted since
    deleted,    \* history: ids whose deleteSound was reported to succeed
    run,        \* history: length of a run of plain saves from the empty store
    recording,  \* whether this behaviour keeps ledger and intact
    now,            \* Date.now(), in milliseconds
    appState,       \* appState.current
    selectedSound,  \* whether the Player screen has a sound selected
    timerMode,      \* 'indefinite' | 'duration' | 'alarm'
    durationHours,
    durationMinutes,
    alarmTime,      \* the alarm instant, or Null
    playerSound,    \* the Player screen's state `sound`: a handle or NoHandle
    soundRef,       \* soundRef.current
    subSound,       \* `sound` as the subscribed handleAppStateChange sees it
    isPlaying,
    remainingTime,  \* seconds shown as "Stops in", or Null
    timerEndTime,   \* the end instant, or Null
    timerInterval,  \* timerInterval.current: the end instant its callback
                    \* was created with, or Null
    loaded,         \* the audio handles created and not unloaded
    tasks,          \* the handler calls that are awaiting a native call,
                    \* a bag
    stops,          \* history: stopSound calls made by timer checks since
                    \*          the timer was last armed (2: two or more)
    libSounds,      \* the Library screen's state `sounds`
    currentSound,   \* the Library screen's state `currentSound`
    playingId,      \* the Library screen's state `playingId`, 0 for null
    pending,        \* the store calls that are awaiting a platform call,
                    \* a bag
    soundCount,     \* the Player screen's state `soundCount`
    isSaving,       \* the Player screen's state `isSaving`
    alert,          \* title of the Alert shown last, "" for none
    recorder,       \* the Player screen's state `recording`: a recording
                    \* or NoHandle
    isRecording,
    recordingDuration,  \* seconds counted by the recording interval
    recordingInterval,  \* recordingInterval.current: the `recording` its
                        \* callback's stopRecording sees, or Null
    recTasks,       \* the startRecording / stopRecording calls that are
                    \* awaiting, a bag
    elapsed,        \* history: seconds the recording in progress has run
    native          \* the recording the platform is making, or NoHandle

storeVars ==
    <<stored, files, nextId, last, ledger, intact, deleted, run, recording>>

settingVars ==
    <<selectedSound, timerMode, durationHours, durationMinutes, alarmTime>>

sessionVars ==
    <<playerSound, soundRef, subSound, isPlaying, remainingTime, timerEndTime,
      timerInterval, loaded, tasks, stops, currentSound,
      playingId>>

screenVars == <<now, appState, settingVars, sessionVars, libSounds>>

formVars == <<pending, soundCount, isSaving, alert>>

recVars ==
    <<recorder, isRecording, recordingDuration, recordingInterval, recTasks,
      elapsed, native>>

sideVars == <<formVars, recVars>>

vars == <<storeVars, faults, screenVars, sideVars>>

----------------------------------------------------------------------------
(* Program constants *)

MAX_SOUNDS == 5
MAX_DURATION_SECONDS == 300

(* Bounds of the model *)

MaxIds == 6         \* at most this many sounds are ever copied
MaxFaults == 1      \* at most this many platform calls reject
MaxOverrun == 2     \* a recording is followed for this many seconds past
                    \* MAX_DURATION_SECONDS
MaxCalls == 2       \* at most this many store calls are awaiting at once

Ids == 1..MaxIds
\* The ids callers pass: those of the first two sounds copied (before and
\* after they are saved, renamed, deleted) and 0, which no sound ever has.
CallIds == {0, 1, 2}
Names == {"Rain", "Storm"}
\* A source uri is the sequence of its pieces between the dots.
Sources == { <<"file:///cache/rec", "m4a">>, <<"file:///cache/clip", "">> }
Durations == {MAX_DURATION_SECONDS, MAX_DURATION_SECONDS + 1}
Outcomes == {"resolve", "reject"}

----------------------------------------------------------------------------
(* Time: instants are milliseconds, as Date.now() and Date.getTime() give   *)
(* them; the local time zone has no offset and no daylight saving.         *)

MsPerSecond == 1000
SecondsPerMinute == 60
SecondsPerHour == 3600
MsPerMinute == SecondsPerMinute * MsPerSecond
MsPerHour == SecondsPerHour * MsPerSecond
MsPerDay == 24 * MsPerHour

\* null, for an instant or a number of seconds
Null == 0 - 1
\* null, for an audio handle
NoHandle == 0

\* Midnight at the start of a day.
Midnight == MsPerDay

\* hoursData and minutesData: the values of the two wheels
HoursData == 0..23
MinutesData == 0..59

\* The minutes and the clock readings setAlarmFromPicker is tried with:
\* first and last of the hour, and readings that fall on, just before and
\* just after times the wheels can ask for.
MinuteSamples == {0, 1, 30, 59}
ClockReadings ==
    { Midnight, Midnight + 1, Midnight + MsPerMinute,
      Midnight + MsPerMinute + 1, Midnight + 12 * MsPerHour + 30 * MsPerMinute,
      Midnight + MsPerDay - 1 }

\* Math.ceil(ms / 1000)
CeilSeconds(ms) == (ms + (MsPerSecond - 1)) \div MsPerSecond

\* Math.floor(ms / 1000)
FloorSeconds(ms) == ms \div MsPerSecond

\* Date.getHours, Date.getMinutes
GetHours(t) == (t % MsPerDay) \div MsPerHour
GetMinutes(t) == (t % MsPerHour) \div MsPerMinute

\* Date.setHours(hours, minutes, 0, 0) on the instant t
SetHours(t, hours, minutes) ==
    (t - (t % MsPerDay)) + hours * MsPerHour + minutes * MsPerMinute

\* A slip: the roll-over compares with <, so an alarm for this very instant
\* stays where it is.
SetAlarmFromPicker_Strict(hours, minutes, t) ==
    LET alarm == SetHours(t, hours, minutes)
    IN  IF alarm < t THEN alarm + MsPerDay ELSE alarm

\* setAlarmFromPicker: the value it gives alarmTime when the clock reads t
SetAlarmFromPicker(hours, minutes, t) ==
    LET alarm == SetHours(t, hours, minutes)
    IN  IF alarm <= t THEN alarm + MsPerDay ELSE alarm

----------------------------------------------------------------------------
(* Results *)

ErrCapacity == "Maximum 5 sounds allowed. Delete a sound to add more."
ErrDuration == "Maximum duration is 5 minutes."
ErrSave == "Failed to save sound"
ErrNotFound == "Sound not found"
ErrUpdate == "Failed to update sound"
ErrDelete == "Failed to delete sound"
NoError == ""

\* A call and its return value.  id is the id the call was given (0 when it
\* takes none) and duration the duration it was given (0 when it takes
\* none); val holds the returned sound(s), the empty sequence standing for
\* null / undefined; count is the number getSoundCount returns.
Ret(op, id, duration, success, error, val, count) ==
    [op |-> op, id |-> id, duration |-> duration, success |-> success,
     error |-> error, val |-> val, count |-> count]

\* What a call did: the state it leaves, what it returned, and the outcomes
\* of the platform calls it made, in the order it made them.
Done(st, fs, nid, ret, calls) ==
    [stored |-> st, files |-> fs, nextId |-> nid, ret |-> ret, calls |-> calls]

----------------------------------------------------------------------------
(* Persistence: JSON.stringify({ sounds }) and JSON.parse *)

\* The serialized text of one sound lists its fields in the order the object
\* literal created them.
StringifySound(s) == <<s.id, s.name, s.uri, s.duration, s.createdAt>>

Stringify(sounds) ==
    [present |-> TRUE,
     data |-> [i \in 1..Len(sounds) |-> StringifySound(sounds[i])]]

ParseSound(d) ==
    [id |-> d[1], name |-> d[2], uri |-> d[3], duration |-> d[4],
     createdAt |-> d[5]]

Parse(data) == [i \in 1..Len(data) |-> ParseSound(data[i])]

NoItem == [present |-> FALSE, data |-> <<>>]

\* JSON.parse accepts the text: every sound of it is whole.
Parses(data) == \A i \in 1..Len(data) : Len(data[i]) = 5

\* An item whose text breaks off inside its first sound.
Truncated == [present |-> TRUE, data |-> << <<>> >>]

\* A slip: the outcome of the read is not looked at.
GetSounds_ReadThrough(st, rd) ==
    IF st.present /\ Parses(st.data) THEN Parse(st.data)
    ELSE <<>>

\* getSounds: a missing item, a rejected read and a text JSON.parse throws
\* on all give the empty list.
GetSounds(st, rd) ==
    IF rd = "reject" THEN <<>>
    ELSE IF st.present
    THEN IF Parses(st.data) THEN Parse(st.data) ELSE <<>>
    ELSE <<>>

----------------------------------------------------------------------------
(* Helpers of the handlers *)

\* Array.findIndex: the 0-based position of the first sound with that id,
\* -1 when there is none.
FindIndex(sounds, id) ==
    IF \E i \in 1..Len(sounds) : sounds[i].id = id
    THEN (CHOOSE i \in 1..Len(sounds) :
            /\ sounds[i].id = id
            /\ \A j \in 1..(i - 1) : sounds[j].id # id) - 1
    ELSE -1

\* Array.find: the first sound with that id, or nothing.
Find(sounds, id) ==
    IF FindIndex(sounds, id) = -1 THEN <<>>
    ELSE <<sounds[FindIndex(sounds, id) + 1]>>

\* A slip: the limit compared with > lets a sixth sound in.
CapacityReached_OffByOne(sounds) == Len(sounds) > MAX_SOUNDS

CapacityReached(sounds) == Len(sounds) >= MAX_SOUNDS

\* A slip: the limit in seconds compared as if it were in minutes.
DurationExceeded_Minutes(duration) == duration > MAX_DURATION_SECONDS * 60

\* A slip: the check is left out.
DurationExceeded_Dropped(duration) == FALSE

DurationExceeded(duration) == duration > MAX_DURATION_SECONDS

\* sourceUri.split('.').pop() || 'm4a'
Extension(sourceUri) ==
    IF sourceUri[Len(sourceUri)] = "" THEN "m4a" ELSE sourceUri[Len(sourceUri)]

\* FileSystem.documentDirectory + `${id}.${extension}`
PermanentUri(id, sourceUri) == <<id, Extension(sourceUri)>>

\* createdAt is the clock reading taken after the copy: the clock is the
\* number of sounds copied, so later saves read later times.
NewSound(id, name, uri, duration) ==
    [id |-> id, name |-> name, uri |-> uri, duration |-> duration,
     createdAt |-> id]

\* A slip: the position found is ignored and the first sound is renamed.
Renamed_First(sounds, index, newName) == [sounds EXCEPT ![1].name = newName]

\* sounds[index].name = newName
Renamed(sounds, index, newName) ==
    [sounds EXCEPT ![index + 1].name = newName]

\* A slip: the unfiltered list is written back.
Filtered_None(sounds, id) == sounds

\* sounds.filter(s => s.id !== id)
Filtered(sounds, id) ==
    LET Keep(s) == s.id # id IN SelectSeq(sounds, Keep)

----------------------------------------------------------------------------
(* The exported functions, each as the state and result it produces from   *)
(* the current state, its arguments and the outcomes of its platform calls *)

\* A slip: the entry is written to the index before the file is copied, so
\* a copy that fails leaves an entry behind.
SaveSoundCall_IndexFirst(name, sourceUri, duration, rd, cp, wr) ==
    LET sounds == GetSounds(stored, rd)
        permanentUri == PermanentUri(nextId, sourceUri)
        newSound == NewSound(nextId, name, permanentUri, duration)
        Fail(e) == Ret("saveSound", 0, duration, FALSE, e, <<>>, 0)
    IN  IF CapacityReached(sounds)
        THEN Done(stored, files, nextId, Fail(ErrCapacity), <<rd>>)
        ELSE IF DurationExceeded(duration)
        THEN Done(stored, files, nextId, Fail(ErrDuration), <<rd>>)
        ELSE IF wr = "reject"
        THEN Done(stored, files, nextId, Fail(ErrSave), <<rd, cp, wr>>)
        ELSE IF cp = "reject"
        THEN Done(Stringify(Append(sounds, newSound)), files, nextId + 1,
                  Fail(ErrSave), <<rd, cp>>)
        ELSE Done(Stringify(Append(sounds, newSound)),
                  files \cup {permanentUri}, nextId + 1,
                  Ret("saveSound", 0, duration, TRUE, NoError, <<newSound>>, 0),
                  <<rd, cp, wr>>)

SaveSoundCall(name, sourceUri, duration, rd, cp, wr) ==
    LET sounds == GetSounds(stored, rd)
        permanentUri == PermanentUri(nextId, sourceUri)
        newSound == NewSound(nextId, name, permanentUri, duration)
        Fail(e) == Ret("saveSound", 0, duration, FALSE, e, <<>>, 0)
    IN  IF CapacityReached(sounds)
        THEN Done(stored, files, nextId, Fail(ErrCapacity), <<rd>>)
        ELSE IF DurationExceeded(duration)
        THEN Done(stored, files, nextId, Fail(ErrDuration), <<rd>>)
        \* an id whose copy failed reached neither a file nor the index:
        \* nothing tells it from an id that was never generated
        ELSE IF cp = "reject"
        THEN Done(stored, files, nextId, Fail(ErrSave), <<rd, cp>>)
        ELSE IF wr = "reject"
        THEN Done(stored, files \cup {permanentUri}, nextId + 1,
                  Fail(ErrSave), <<rd, cp, wr>>)
        ELSE Done(Stringify(Append(sounds, newSound)),
                  files \cup {permanentUri}, nextId + 1,
                  Ret("saveSound", 0, duration, TRUE, NoError, <<newSound>>, 0),
                  <<rd, cp, wr>>)

UpdateSoundNameCall(id, newName, rd, wr) ==
    LET sounds == GetSounds(stored, rd)
        index == FindIndex(sounds, id)
        Fail(e) == Ret("updateSoundName", id, 0, FALSE, e, <<>>, 0)
    IN  IF index = -1
        THEN Done(stored, files, nextId, Fail(ErrNotFound), <<rd>>)
        ELSE IF wr = "reject"
        THEN Done(stored, files, nextId, Fail(ErrUpdate), <<rd, wr>>)
        ELSE Done(Stringify(Renamed(sounds, index, newName)), files, nextId,
                  Ret("updateSoundName", id, 0, TRUE, NoError, <<>>, 0),
                  <<rd, wr>>)

\* A slip: deleteSound without the not-found return; an unknown id goes on
\* to the index write and reports success.
DeleteSoundCall_NoCheck(id, rd, dl, wr) ==
    LET sounds == GetSounds(stored, rd)
        sound == Find(sounds, id)
        Fail(e) == Ret("deleteSound", id, 0, FALSE, e, <<>>, 0)
        left == IF dl = "reject" \/ sound = <<>> THEN files
                ELSE files \ {sound[1].uri}
    IN  IF wr = "reject"
        THEN Done(stored, left, nextId, Fail(ErrDelete), <<rd, dl, wr>>)
        ELSE Done(Stringify(Filtered(sounds, id)), left, nextId,
                  Ret("deleteSound", id, 0, TRUE, NoError, <<>>, 0),
                  <<rd, dl, wr>>)

\* A slip: deleteAsync outside the inner try, so that its rejection reaches
\* the outer catch and the call fails before the index is written.
DeleteSoundCall_Surfaced(id, rd, dl, wr) ==
    LET sounds == GetSounds(stored, rd)
        sound == Find(sounds, id)
        Fail(e) == Ret("deleteSound", id, 0, FALSE, e, <<>>, 0)
    IN  IF sound = <<>>
        THEN Done(stored, files, nextId, Fail(ErrNotFound), <<rd>>)
        ELSE IF dl = "reject"
        THEN Done(stored, files, nextId, Fail(ErrDelete), <<rd, dl>>)
        ELSE IF wr = "reject"
        THEN Done(stored, files \ {sound[1].uri}, nextId, Fail(ErrDelete),
                  <<rd, dl, wr>>)
        ELSE Done(Stringify(Filtered(sounds, id)), files \ {sound[1].uri},
                  nextId,
                  Ret("deleteSound", id, 0, TRUE, NoError, <<>>, 0),
                  <<rd, dl, wr>>)

DeleteSoundCall(id, rd, dl, wr) ==
    LET sounds == GetSounds(stored, rd)
        sound == Find(sounds, id)
        Fail(e) == Ret("deleteSound", id, 0, FALSE, e, <<>>, 0)
        \* a rejected deleteAsync is caught and logged: the file stays
        left == IF dl = "reject" THEN files ELSE files \ {sound[1].uri}
    IN  IF sound = <<>>
        THEN Done(stored, files, nextId, Fail(ErrNotFound), <<rd>>)
        ELSE IF wr = "reject"
        THEN Done(stored, left, nextId, Fail(ErrDelete), <<rd, dl, wr>>)
        ELSE Done(Stringify(Filtered(sounds, id)), left, nextId,
                  Ret("deleteSound", id, 0, TRUE, NoError, <<>>, 0),
                  <<rd, dl, wr>>)

GetSoundsCall(rd) ==
    Done(stored, files, nextId,
         Ret("getSounds", 0, 0, TRUE, NoError, GetSounds(stored, rd), 0), <<rd>>)

GetSoundCall(id, rd) ==
    Done(stored, files, nextId,
         Ret("getSound", id, 0,
             TRUE, NoError, Find(GetSounds(stored, rd), id), 0),
         <<rd>>)

GetSoundCountCall(rd) ==
    Done(stored, files, nextId,
         Ret("getSoundCount", 0, 0, TRUE, NoError, <<>>,
             Len(GetSounds(stored, rd))), <<rd>>)

----------------------------------------------------------------------------
(* History variables *)

Rejects(calls) == Cardinality({i \in DOMAIN calls : calls[i] = "reject"})

\* The outcomes chosen for platform calls the handler never made are fixed,
\* so that one call of the program is one step of the model.
Unused(calls, outcomes) ==
    \A i \in (Len(calls) + 1)..Len(outcomes) : outcomes[i] = "resolve"

\* ledger after a call that returned ret: a reported save appends the
\* returned sound, a reported rename replaces the name, a reported delete
\* removes the sound.
LedgerAfter(ret, newName) ==
    IF ~recording \/ ~ret.success THEN ledger
    ELSE IF ret.op = "saveSound" THEN Append(ledger, ret.val[1])
    ELSE IF ret.op = "updateSoundName"
    THEN [i \in 1..Len(ledger) |->
            IF ledger[i].id = ret.id
            THEN [ledger[i] EXCEPT !.name = newName] ELSE ledger[i]]
    ELSE IF ret.op = "deleteSound"
    THEN LET Other(e) == e.id # ret.id IN SelectSeq(ledger, Other)
    ELSE ledger

IntactAfter(ret) ==
    IF ~recording \/ ~ret.success THEN intact
    ELSE IF ret.op = "saveSound" THEN intact \cup {ret.val[1]}
    ELSE IF ret.op \in {"updateSoundName", "deleteSound"}
    THEN {e \in intact : e.id # ret.id}
    ELSE intact

DeletedAfter(ret) ==
    IF ret.success /\ ret.op = "deleteSound" THEN deleted \cup {ret.id}
    ELSE deleted

\* run counts the saves of a run that began at the empty store and has so
\* far consisted of saves within the duration limit, with no platform call
\* rejecting; MAX_SOUNDS + 1 stands for every later save; -1: no such run.
RunAfter(duration, calls) ==
    IF run >= 0 /\ duration <= MAX_DURATION_SECONDS /\ Rejects(calls) = 0
    THEN IF run <= MAX_SOUNDS THEN run + 1 ELSE run
    ELSE -1

----------------------------------------------------------------------------
(* Actions: one per exported function *)

\* The part every action shares: the call c takes effect.
Effect(c) ==
    /\ faults + Rejects(c.calls) <= MaxFaults
    /\ c.nextId <= MaxIds + 1
    /\ stored' = c.stored
    /\ files' = c.files
    /\ nextId' = c.nextId
    /\ last' = c.ret
    /\ faults' = faults + Rejects(c.calls)
    /\ recording' = recording
    /\ UNCHANGED <<screenVars, sideVars>>

SaveSoundStep(name, sourceUri, duration, rd, cp, wr) ==
    LET c == SaveSoundCall(name, sourceUri, duration, rd, cp, wr) IN
    /\ Unused(c.calls, <<rd, cp, wr>>)
    /\ Effect(c)
    /\ ledger' = LedgerAfter(c.ret, name)
    /\ intact' = IntactAfter(c.ret)
    /\ deleted' = DeletedAfter(c.ret)
    /\ run' = RunAfter(duration, c.calls)

SaveSound ==
    \E name \in Names, sourceUri \in Sources, duration \in Durations,
       rd \in Outcomes, cp \in Outcomes, wr \in Outcomes :
        SaveSoundStep(name, sourceUri, duration, rd, cp, wr)

UpdateSoundNameStep(id, newName, rd, wr) ==
    LET c == UpdateSoundNameCall(id, newName, rd, wr) IN
    /\ Unused(c.calls, <<rd, wr>>)
    /\ Effect(c)
    /\ ledger' = LedgerAfter(c.ret, newName)
    /\ intact' = IntactAfter(c.ret)
    /\ deleted' = DeletedAfter(c.ret)
    /\ run' = -1

UpdateSoundName ==
    \E id \in CallIds, newName \in Names, rd \in Outcomes, wr \in Outcomes :
        UpdateSoundNameStep(id, newName, rd, wr)

DeleteSoundStep(id, rd, dl, wr) ==
    LET c == DeleteSoundCall(id, rd, dl, wr) IN
    /\ Unused(c.calls, <<rd, dl, wr>>)
    /\ Effect(c)
    /\ ledger' = LedgerAfter(c.ret, "")
    /\ intact' = IntactAfter(c.ret)
    /\ deleted' = DeletedAfter(c.ret)
    /\ run' = -1

DeleteSound ==
    \E id \in CallIds, rd \in Outcomes, dl \in Outcomes, wr \in Outcomes :
        DeleteSoundStep(id, rd, dl, wr)

GetSoundsStep(rd) ==
    /\ Effect(GetSoundsCall(rd))
    /\ UNCHANGED <<ledger, intact, deleted, run>>

GetSoundsAll == \E rd \in Outcomes : GetSoundsStep(rd)

GetSoundStep(id, rd) ==
    /\ Effect(GetSoundCall(id, rd))
    /\ UNCHANGED <<ledger, intact, deleted, run>>

GetSound == \E id \in CallIds, rd \in Outcomes : GetSoundStep(id, rd)

GetSoundCountStep(rd) ==
    /\ Effect(GetSoundCountCall(rd))
    /\ UNCHANGED <<ledger, intact, deleted, run>>

GetSoundCount == \E rd \in Outcomes : GetSoundCountStep(rd)

\* A fresh install: no item stored, no file copied.
Fresh ==
    /\ stored = NoItem
    /\ files = {}
    /\ nextId = 1
    /\ last = Ret("none", 0, 0, TRUE, NoError, <<>>, 0)
    /\ faults = 0
    /\ ledger = <<>>
    /\ intact = {}
    /\ deleted = {}
    /\ run = 0

\* The screens as they are first rendered.
Mounted ==
    /\ appState = "active"
    /\ selectedSound = FALSE
    /\ timerMode = "indefinite"
    /\ durationHours = 0
    /\ durationMinutes = 5
    /\ alarmTime = Null
    /\ playerSound = NoHandle
    /\ soundRef = NoHandle
    /\ subSound = NoHandle
    /\ isPlaying = FALSE
    /\ remainingTime = Null
    /\ timerEndTime = Null
    /\ timerInterval = Null
    /\ loaded = {}
    /\ tasks = EmptyBag
    /\ stops = 0
    /\ libSounds = <<>>
    /\ currentSound = NoHandle
    /\ playingId = 0
    /\ pending = EmptyBag
    /\ soundCount = 0
    /\ isSaving = FALSE
    /\ alert = ""
    /\ recorder = NoHandle
    /\ isRecording = FALSE
    /\ recordingDuration = 0
    /\ recordingInterval = Null
    /\ recTasks = EmptyBag
    /\ elapsed = 0
    /\ native = NoHandle

Init == Fresh /\ Mounted /\ now = Midnight /\ recording = FALSE

InitHist == Fresh /\ Mounted /\ now = Midnight /\ recording = TRUE

Next ==
    \/ SaveSound
    \/ UpdateSoundName
    \/ DeleteSound
    \/ GetSoundsAll
    \/ GetSound
    \/ GetSoundCount

Spec == Init /\ [][Next]_vars

\* The store when the item it finds at first use is not a text it wrote.
InitCorrupt ==
    /\ stored = Truncated
    /\ files = {}
    /\ nextId = 1
    /\ last = Ret("none", 0, 0, TRUE, NoError, <<>>, 0)
    /\ faults = 0
    /\ ledger = <<>>
    /\ intact = {}
    /\ deleted = {}
    /\ run = 0
    /\ Mounted
    /\ now = Midnight
    /\ recording = FALSE

SpecCorrupt == InitCorrupt /\ [][Next]_vars

----------------------------------------------------------------------------
(* The screens: playback sessions and the sleep timer *)

MaxHandles == 2     \* at most this many audio handles are loaded or still
                    \* referred to at a time
MaxTasks == 2       \* at most this many handler calls await at a time

TimerModes == {"indefinite", "duration", "alarm"}
\* The values the duration wheels and the alarm wheels are turned to.
DurationHourChoices == {0}
DurationMinuteChoices == {1}
AlarmHourChoices == {0}
AlarmMinuteChoices == {0, 1}
\* The later instants the clock is read at: half a second before and at the
\* end of a one-minute timer armed at Midnight.
Instants == { Midnight + MsPerMinute - 500, Midnight + MsPerMinute }

\* The session as the handlers read and write it.
Session ==
    [playerSound |-> playerSound, soundRef |-> soundRef,
     isPlaying |-> isPlaying, remainingTime |-> remainingTime,
     timerEndTime |-> timerEndTime, timerInterval |-> timerInterval,
     appState |-> appState, loaded |-> loaded, tasks |-> tasks,
     stops |-> stops,
     currentSound |-> currentSound, playingId |-> playingId]

\* A handler call: the function, the await it is at, the handle that await
\* is about, and the values of the render it was created in that the
\* function goes on to read: for playSound the timer mode and what the
\* branch of that mode reads, for the Library screen the id asked for, the
\* id playing and whether the id is among the sounds listed.  by tells who
\* made the call.
Task(fn, snd, by, arg) ==
    LET play == fn = "playSound"
        library == fn = "libraryPlaySound"
    IN  [fn |-> fn, pc |-> "", snd |-> snd, by |-> by, arg |-> arg,
         mode |-> IF play THEN timerMode ELSE "",
         hours |-> IF play /\ timerMode = "duration" THEN durationHours ELSE 0,
         minutes |-> IF play /\ timerMode = "duration" THEN durationMinutes
                     ELSE 0,
         alarm |-> IF play /\ timerMode = "alarm" THEN alarmTime ELSE Null,
         playing |-> IF library THEN playingId ELSE 0,
         found |-> library /\ \E i \in 1..Len(libSounds) : libSounds[i].id = arg]

\* The call t awaits the native call pc on the handle snd.
Park(p, t, pc, snd) ==
    [p EXCEPT !.tasks = @ (+) SetToBag({[t EXCEPT !.pc = pc, !.snd = snd]})]

\* The session without the awaiting call t.
Without(p, t) == [p EXCEPT !.tasks = @ (-) SetToBag({t})]

\* The handle Audio.Sound.createAsync resolves with: a new object, named by
\* the first number that names no handle loaded or referred to.
NewHandle(p) ==
    LET used == p.loaded
                \cup {p.playerSound, p.soundRef, p.currentSound, subSound}
                \cup {t.snd : t \in BagToSet(p.tasks)}
    IN  CHOOSE h \in 1..(MaxHandles + 1) :
            h \notin used /\ \A g \in 1..(h - 1) : g \in used

\* unloadAsync has resolved on the handle h.
Unloaded(p, h) == [p EXCEPT !.loaded = @ \ {h}]

\* The end of stopSound: the three setters and clearInterval.  The
\* resume handler then records the new app state.
StopReset(p, t) ==
    [p EXCEPT !.isPlaying = FALSE, !.remainingTime = Null,
              !.timerEndTime = Null, !.timerInterval = Null,
              !.appState = IF t.by = "resume" THEN "active" ELSE @]

\* stopSound at `if (soundRef.current)`
StopCheckRef(p, t) ==
    IF p.soundRef # NoHandle THEN Park(p, t, "stopRef", p.soundRef)
    ELSE StopReset(p, t)

\* stopSound is called by `by`, in a render whose `sound` is snd.
StopInvoked(p, by, snd) ==
    LET t == Task("stopSound", snd, by, 0)
        q == [p EXCEPT !.stops = IF by = "user" \/ @ = 2 THEN @ ELSE @ + 1]
    IN  IF snd # NoHandle THEN Park(q, t, "stopState", snd)
        ELSE StopCheckRef(q, t)

\* A slip: stopSound without its try / catch; a rejected native call ends
\* the function there.
StopFailed_Raised(p, t) == p

\* stopSound after a native call of it has rejected: the catch logs, then
\* the function goes on behind the try.
StopFailed(p, t) ==
    IF t.pc \in {"stopState", "unloadState"}
    THEN StopCheckRef([p EXCEPT !.playerSound = NoHandle], t)
    ELSE StopReset([p EXCEPT !.soundRef = NoHandle], t)

\* stopSound resumes: the native call t awaited has settled.
StopResumed(p, t, outcome) ==
    IF outcome = "reject" THEN StopFailed(p, t)
    ELSE IF t.pc = "stopState" THEN Park(p, t, "unloadState", t.snd)
    ELSE IF t.pc = "unloadState"
    THEN StopCheckRef([Unloaded(p, t.snd) EXCEPT !.playerSound = NoHandle], t)
    ELSE IF t.pc = "stopRef"
    \* soundRef.current is read again for unloadAsync; on null the call
    \* throws into the catch
    THEN IF p.soundRef = NoHandle THEN StopFailed(p, t)
         ELSE Park(p, t, "unloadRef", p.soundRef)
    ELSE StopReset([Unloaded(p, t.snd) EXCEPT !.soundRef = NoHandle], t)

\* A slip: the effect on remainingTime is missing, so that a timer that has
\* run out only shows 0.
Rendered_NoEffect(p) == p

\* The effect on remainingTime: a render in which it has become 0 calls
\* stopSound.
Rendered(p) ==
    IF p.remainingTime = 0 /\ remainingTime # 0
    THEN StopInvoked(p, "timer", p.playerSound)
    ELSE p

\* startTimer
StartTimer(p, endTimestamp) ==
    [p EXCEPT !.timerInterval = endTimestamp, !.stops = 0]

\* playSound at `if (soundRef.current)`
PlayCheckRef(p, t) ==
    IF p.soundRef # NoHandle THEN Park(p, t, "unloadRef", p.soundRef)
    ELSE Park(p, t, "create", NoHandle)

\* playSound is called in a render whose `sound` is t.snd.
PlayInvoked(p, t) ==
    IF t.snd # NoHandle THEN Park(p, t, "unloadState", t.snd)
    ELSE PlayCheckRef(p, t)

\* playSound after setIsPlaying(true): the timer is set up for the mode.
Armed(p, t) ==
    IF t.mode = "duration"
    THEN LET totalSeconds ==
                t.hours * SecondsPerHour + t.minutes * SecondsPerMinute
             endTime == now + totalSeconds * MsPerSecond
         IN  StartTimer([p EXCEPT !.timerEndTime = endTime,
                                  !.remainingTime = totalSeconds], endTime)
    ELSE IF t.mode = "alarm" /\ t.alarm # Null
    THEN LET diff == FloorSeconds(t.alarm - now)
         IN  IF diff > 0
             THEN StartTimer([p EXCEPT !.timerEndTime = t.alarm,
                                       !.remainingTime = diff], t.alarm)
             ELSE p
    ELSE [p EXCEPT !.timerEndTime = Null, !.remainingTime = Null]

\* playSound after createAsync has resolved with a new handle.
PlayCreated(p, t) ==
    LET newSound == NewHandle(p)
    IN  Rendered(Armed([p EXCEPT !.loaded = @ \cup {newSound},
                                 !.playerSound = newSound,
                                 !.soundRef = newSound,
                                 !.isPlaying = TRUE], t))

\* playSound resumes: the native call t awaited has settled.  A rejection
\* goes to the catch, which shows an alert.
PlayResumed(p, t, outcome) ==
    IF outcome = "reject" THEN p
    ELSE IF t.pc = "unloadState" THEN PlayCheckRef(Unloaded(p, t.snd), t)
    ELSE IF t.pc = "unloadRef"
    THEN Park(Unloaded(p, t.snd), t, "create", NoHandle)
    ELSE PlayCreated(p, t)

\* The Library screen's playSound behind the stop of the current sound.
LibraryAfterStop(p, t) ==
    IF t.playing = t.arg THEN [p EXCEPT !.playingId = 0]
    ELSE IF ~t.found THEN p
    ELSE Park(p, t, "create", NoHandle)

\* The Library screen's playSound is called.
LibraryPlayInvoked(p, t) ==
    IF t.snd # NoHandle THEN Park(p, t, "stop", t.snd)
    ELSE LibraryAfterStop(p, t)

\* The Library screen's playSound resumes.
LibraryPlayResumed(p, t, outcome) ==
    IF outcome = "reject" THEN p
    ELSE IF t.pc = "stop" THEN Park(p, t, "unload", t.snd)
    ELSE IF t.pc = "unload"
    THEN LibraryAfterStop(
            [Unloaded(p, t.snd) EXCEPT !.currentSound = NoHandle], t)
    ELSE [p EXCEPT !.loaded = @ \cup {NewHandle(p)},
                   !.currentSound = NewHandle(p),
                   !.playingId = t.arg]

\* The Delete button of handleDeleteSound behind the store's deleteSound,
\* when the sound deleted was the one playing: the stop and unload of the
\* handle, then the two setters.  A rejection goes to the catch.
LibraryDeleteResumed(p, t, outcome) ==
    IF outcome = "reject" THEN p
    ELSE IF t.pc = "stop" THEN Park(p, t, "unload", t.snd)
    ELSE [Unloaded(p, t.snd) EXCEPT !.currentSound = NoHandle,
                                    !.playingId = 0]

\* A slip: the callback counts the seconds down instead of reading the
\* clock, so that ticks that were not delivered are not made up for.
Ticked_Countdown(p) ==
    LET remaining == p.remainingTime - 1
    IN  Rendered(IF remaining <= 0
                 THEN [p EXCEPT !.remainingTime = 0, !.timerInterval = Null]
                 ELSE [p EXCEPT !.remainingTime = remaining])

\* The interval callback of startTimer, then the render it causes.
Ticked(p) ==
    LET remaining == CeilSeconds(p.timerInterval - now)
    IN  Rendered(IF remaining <= 0
                 THEN [p EXCEPT !.remainingTime = 0, !.timerInterval = Null]
                 ELSE [p EXCEPT !.remainingTime = remaining])

\* handleAppStateChange(nextAppState)
AppStateChanged(p, nextAppState) ==
    IF p.appState # "active" /\ nextAppState = "active"
       /\ p.timerEndTime # Null /\ p.timerEndTime # 0 /\ p.isPlaying
    THEN IF now >= p.timerEndTime
         \* appState.current is assigned after the awaited stopSound
         THEN StopInvoked(p, "resume", subSound)
         ELSE [p EXCEPT !.remainingTime = CeilSeconds(p.timerEndTime - now),
                        !.appState = nextAppState]
    ELSE [p EXCEPT !.appState = nextAppState]

\* The step ends with the session p.  The subscription of
\* handleAppStateChange is renewed by a render that changes timerEndTime or
\* isPlaying.
Commit(p) ==
    /\ p.loaded \subseteq 1..MaxHandles
    /\ BagCardinality(p.tasks) <= MaxTasks
    /\ playerSound' = p.playerSound
    /\ soundRef' = p.soundRef
    /\ isPlaying' = p.isPlaying
    /\ remainingTime' = p.remainingTime
    /\ timerEndTime' = p.timerEndTime
    /\ timerInterval' = p.timerInterval
    /\ appState' = p.appState
    /\ loaded' = p.loaded
    /\ tasks' = p.tasks
    /\ stops' = p.stops
    /\ currentSound' = p.currentSound
    /\ playingId' = p.playingId
    /\ subSound' = IF p.timerEndTime # timerEndTime \/ p.isPlaying # isPlaying
                   THEN p.playerSound ELSE subSound

(* Actions of the Player screen *)

\* A recording, a picked file or a library sound becomes the selected sound.
SelectSound ==
    /\ ~selectedSound
    /\ selectedSound' = TRUE
    /\ UNCHANGED <<sideVars, storeVars, faults, now, appState, sessionVars, libSounds,
                   timerMode, durationHours, durationMinutes, alarmTime>>

\* The timer modal is put in alarm mode, which shows the alarm wheels, and
\* one of them is turned; each wheel passes its own value and the other
\* part of alarmTime || new Date().
AlarmPickedStep(hours, minutes) ==
    /\ timerMode' = "alarm"
    /\ alarmTime' = SetAlarmFromPicker(hours, minutes, now)
    /\ alarmTime' # alarmTime
    /\ UNCHANGED <<sideVars, storeVars, faults, now, appState, sessionVars, libSounds,
                   selectedSound, durationHours, durationMinutes>>

AlarmPicked ==
    LET current == IF alarmTime # Null THEN alarmTime ELSE now IN
    \/ \E value \in AlarmHourChoices :
            AlarmPickedStep(value, GetMinutes(current))
    \/ \E value \in AlarmMinuteChoices :
            AlarmPickedStep(GetHours(current), value)

\* The timer modal is left in the given mode with the duration wheels at
\* the given values (they are shown in duration mode), then the play button
\* is pressed while nothing plays.  Nothing but playSound reads the mode
\* and the wheels, so setting them is put together with the press that
\* follows.
PressPlayStep(mode, hours, minutes) ==
    /\ selectedSound
    /\ ~isPlaying
    /\ mode # "duration" => <<hours, minutes>> = <<durationHours, durationMinutes>>
    /\ timerMode' = mode
    /\ durationHours' = hours
    /\ durationMinutes' = minutes
    /\ Commit(PlayInvoked(Session,
                          [Task("playSound", playerSound, "user", 0)
                             EXCEPT !.mode = mode,
                                    !.hours = IF mode = "duration"
                                              THEN hours ELSE 0,
                                    !.minutes = IF mode = "duration"
                                                THEN minutes ELSE 0,
                                    !.alarm = IF mode = "alarm"
                                              THEN alarmTime ELSE Null]))
    /\ UNCHANGED <<sideVars, storeVars, faults, now, selectedSound, alarmTime,
                   libSounds>>

PressPlay ==
    \E mode \in TimerModes,
       hours \in DurationHourChoices \cup {durationHours},
       minutes \in DurationMinuteChoices \cup {durationMinutes} :
        PressPlayStep(mode, hours, minutes)

\* The same button while isPlaying.
PressStop ==
    /\ isPlaying
    /\ Commit(StopInvoked(Session, "user", playerSound))
    /\ UNCHANGED <<sideVars, storeVars, faults, now, settingVars, libSounds>>

\* A native call settles and the handler that awaited it goes on.
ResumeStep(t, outcome) ==
    LET p == Without(Session, t)
    IN  /\ Commit(IF t.fn = "playSound" THEN PlayResumed(p, t, outcome)
                  ELSE IF t.fn = "stopSound" THEN StopResumed(p, t, outcome)
                  ELSE IF t.fn = "handleDeleteSound"
                  THEN LibraryDeleteResumed(p, t, outcome)
                  ELSE LibraryPlayResumed(p, t, outcome))
        /\ UNCHANGED <<sideVars, storeVars, faults, now, settingVars, libSounds>>

PlayResumes ==
    \E t \in BagToSet(tasks), outcome \in Outcomes :
        t.fn = "playSound" /\ ResumeStep(t, outcome)

StopResumes ==
    \E t \in BagToSet(tasks), outcome \in Outcomes :
        t.fn = "stopSound" /\ ResumeStep(t, outcome)

Tick ==
    /\ timerInterval # Null
    /\ Commit(Ticked(Session))
    /\ UNCHANGED <<sideVars, storeVars, faults, now, settingVars, libSounds>>

\* The app leaves the foreground.
AppBackground ==
    /\ appState = "active"
    /\ Commit(AppStateChanged(Session, "background"))
    /\ UNCHANGED <<sideVars, storeVars, faults, now, settingVars, libSounds>>

\* The app comes to the foreground.
AppActive ==
    /\ appState # "active"
    /\ Commit(AppStateChanged(Session, "active"))
    /\ UNCHANGED <<sideVars, storeVars, faults, now, settingVars, libSounds>>

\* Time passes.
Advance ==
    /\ \E t \in Instants : t > now /\ now' = t
    /\ UNCHANGED <<sideVars, storeVars, faults, appState, settingVars, sessionVars,
                   libSounds>>

NextPlayer ==
    \/ SelectSound
    \/ AlarmPicked
    \/ PressPlay
    \/ PressStop
    \/ PlayResumes
    \/ StopResumes
    \/ Tick
    \/ AppBackground
    \/ AppActive
    \/ Advance

SpecPlayer == Init /\ [][NextPlayer]_vars

\* The play button is pressed while no earlier press of it is awaiting.
PressPlayAlone ==
    /\ \A t \in BagToSet(tasks) : t.fn # "playSound"
    /\ PressPlay

\* The Player screen used without pressing play twice in a row.
NextStop ==
    \/ SelectSound
    \/ PressPlayAlone
    \/ PressStop
    \/ PlayResumes
    \/ StopResumes
    \/ Tick
    \/ AppBackground
    \/ AppActive
    \/ Advance

SpecStop == Init /\ [][NextStop]_vars

----------------------------------------------------------------------------
(* Playback on both screens, with a sound in the library *)

\* loadSounds, as the Library screen runs it when it gets the focus
LoadSoundsStep(rd) ==
    /\ faults + Rejects(<<rd>>) <= MaxFaults
    /\ faults' = faults + Rejects(<<rd>>)
    /\ libSounds' = GetSounds(stored, rd)
    /\ libSounds' # libSounds
    /\ UNCHANGED <<sideVars, storeVars, now, appState, settingVars, sessionVars>>

LoadSounds == \E rd \in Outcomes : LoadSoundsStep(rd)

\* The play button of a sound of the list.
LibraryPlayStep(soundId) ==
    /\ \E i \in 1..Len(libSounds) : libSounds[i].id = soundId
    /\ Commit(LibraryPlayInvoked(
                Session, Task("libraryPlaySound", currentSound, "user", soundId)))
    /\ UNCHANGED <<sideVars, storeVars, faults, now, settingVars, libSounds>>

LibraryPlay == \E soundId \in CallIds : LibraryPlayStep(soundId)

LibraryPlayResumes ==
    \E t \in BagToSet(tasks), outcome \in Outcomes :
        t.fn = "libraryPlaySound" /\ ResumeStep(t, outcome)

\* The sound a first saveSound has stored.
Stocked ==
    NewSound(1, "Rain", PermanentUri(1, <<"file:///cache/rec", "m4a">>),
             MAX_DURATION_SECONDS)

\* The state after that save on a fresh install.
InitAudio ==
    /\ stored = Stringify(<<Stocked>>)
    /\ files = {Stocked.uri}
    /\ nextId = 2
    /\ last = Ret("saveSound", 0, MAX_DURATION_SECONDS, TRUE, NoError,
                  <<Stocked>>, 0)
    /\ faults = 0
    /\ ledger = <<>>
    /\ intact = {}
    /\ deleted = {}
    /\ run = 1
    /\ recording = FALSE
    /\ Mounted
    /\ now = Midnight

NextAudio ==
    \/ SelectSound
    \/ PressPlay
    \/ PressStop
    \/ PlayResumes
    \/ StopResumes
    \/ LoadSounds
    \/ LibraryPlay
    \/ LibraryPlayResumes

SpecAudio == InitAudio /\ [][NextAudio]_vars

----------------------------------------------------------------------------
(* setAlarmFromPicker on its own, at several clock readings *)

SetAlarmFromPickerStep(hours, minutes) ==
    /\ alarmTime' = SetAlarmFromPicker(hours, minutes, now)
    /\ UNCHANGED <<sideVars, storeVars, faults, now, appState, sessionVars, libSounds,
                   selectedSound, timerMode, durationHours, durationMinutes>>

SetAlarmFromPickerCall ==
    \E hours \in HoursData, minutes \in MinuteSamples :
        SetAlarmFromPickerStep(hours, minutes)

InitAlarm ==
    /\ Fresh
    /\ Mounted
    /\ now \in ClockReadings
    /\ recording = FALSE

NextAlarm == SetAlarmFromPickerCall

SpecAlarm == InitAlarm /\ [][NextAlarm]_vars

\* The same program, with the full history of reported results kept.
SpecHist == InitHist /\ [][Next]_vars

----------------------------------------------------------------------------
(* Properties *)
----------------------------------------------------------------------------
(* The store's functions when the screens call them: a call runs from one  *)
(* await of a platform call to the next, and other calls run in between    *)

\* The uri of the sound the Player screen has selected.
SelectedUri == <<"file:///cache/rec", "m4a">>

\* The library of an app with one free place: MAX_SOUNDS - 1 saved sounds.
Saved ==
    [i \in 1..(MAX_SOUNDS - 1) |->
        NewSound(i, "Rain", PermanentUri(i, SelectedUri),
                 MAX_DURATION_SECONDS)]

\* The ids of the sounds whose buttons are pressed on the Library screen:
\* that of the first sound of the list.
ListedIds == {1}

\* A call of a function of the store by a handler of a screen.  sounds is
\* the local array of the call; playing and snd are the Library screen's
\* playingId and currentSound as the handler sees them.
StoreCall(op, id, name, screen) ==
    [op |-> op, id |-> id, name |-> name, screen |-> screen, pc |-> "read",
     sounds |-> <<>>,
     playing |-> IF op = "deleteSound" THEN playingId ELSE 0,
     snd |-> IF op = "deleteSound" THEN currentSound ELSE NoHandle]

\* What a call does between two awaits: the state it leaves, the call as it
\* awaits next (none when it has returned) and what it returned (nothing
\* when it awaits).
Went(st, fs, nid, next, ret) ==
    [stored |-> st, files |-> fs, nextId |-> nid, next |-> next, ret |-> ret]

\* A slip: saveSound reads the index again before it writes, and appends
\* to what it then finds without checking the limit again.
SaveSoundResumed_Reread(c, outcome) ==
    LET Fail(e) ==
            <<Ret("saveSound", 0, MAX_DURATION_SECONDS, FALSE, e, <<>>, 0)>>
        uri == PermanentUri(c.id, SelectedUri)
        newSound == NewSound(c.id, c.name, uri, MAX_DURATION_SECONDS)
    IN  IF c.pc = "read"
        THEN LET sounds == GetSounds(stored, outcome)
             IN  IF CapacityReached(sounds)
                 THEN Went(stored, files, nextId, <<>>, Fail(ErrCapacity))
                 ELSE Went(stored, files, nextId + 1,
                           <<[c EXCEPT !.pc = "copy", !.id = nextId,
                                       !.sounds = sounds]>>, <<>>)
        ELSE IF outcome = "reject"
        THEN Went(stored, files, nextId, <<>>, Fail(ErrSave))
        ELSE IF c.pc = "copy"
        THEN Went(stored, files \cup {uri}, nextId,
                  <<[c EXCEPT !.pc = "write"]>>, <<>>)
        ELSE Went(Stringify(Append(GetSounds(stored, "resolve"), newSound)),
                  files, nextId, <<>>,
                  <<Ret("saveSound", 0, MAX_DURATION_SECONDS, TRUE, NoError,
                        <<newSound>>, 0)>>)

\* saveSound(c.name, SelectedUri, MAX_DURATION_SECONDS) after the await
\* c.pc has settled.  generateId is called before the copy.
SaveSoundResumed(c, outcome) ==
    LET Fail(e) ==
            <<Ret("saveSound", 0, MAX_DURATION_SECONDS, FALSE, e, <<>>, 0)>>
        uri == PermanentUri(c.id, SelectedUri)
        newSound == NewSound(c.id, c.name, uri, MAX_DURATION_SECONDS)
    IN  IF c.pc = "read"
        THEN LET sounds == GetSounds(stored, outcome)
             IN  IF CapacityReached(sounds)
                 THEN Went(stored, files, nextId, <<>>, Fail(ErrCapacity))
                 ELSE IF DurationExceeded(MAX_DURATION_SECONDS)
                 THEN Went(stored, files, nextId, <<>>, Fail(ErrDuration))
                 ELSE Went(stored, files, nextId + 1,
                           <<[c EXCEPT !.pc = "copy", !.id = nextId,
                                       !.sounds = sounds]>>, <<>>)
        ELSE IF outcome = "reject"
        THEN Went(stored, files, nextId, <<>>, Fail(ErrSave))
        ELSE IF c.pc = "copy"
        THEN Went(stored, files \cup {uri}, nextId,
                  <<[c EXCEPT !.pc = "write",
                              !.sounds = Append(@, newSound)]>>, <<>>)
        ELSE Went(Stringify(c.sounds), files, nextId, <<>>,
                  <<Ret("saveSound", 0, MAX_DURATION_SECONDS, TRUE, NoError,
                        <<newSound>>, 0)>>)

\* updateSoundName(c.id, c.name) after the await c.pc has settled
UpdateSoundNameResumed(c, outcome) ==
    LET Fail(e) == <<Ret("updateSoundName", c.id, 0, FALSE, e, <<>>, 0)>>
    IN  IF c.pc = "read"
        THEN LET sounds == GetSounds(stored, outcome)
                 index == FindIndex(sounds, c.id)
             IN  IF index = -1
                 THEN Went(stored, files, nextId, <<>>, Fail(ErrNotFound))
                 ELSE Went(stored, files, nextId,
                           <<[c EXCEPT !.pc = "write",
                                       !.sounds =
                                           Renamed(sounds, index, c.name)]>>,
                           <<>>)
        ELSE IF outcome = "reject"
        THEN Went(stored, files, nextId, <<>>, Fail(ErrUpdate))
        ELSE Went(Stringify(c.sounds), files, nextId, <<>>,
                  <<Ret("updateSoundName", c.id, 0, TRUE, NoError, <<>>, 0)>>)

\* deleteSound(c.id) after the await c.pc has settled
DeleteSoundResumed(c, outcome) ==
    LET Fail(e) == <<Ret("deleteSound", c.id, 0, FALSE, e, <<>>, 0)>>
    IN  IF c.pc = "read"
        THEN LET sounds == GetSounds(stored, outcome)
             IN  IF Find(sounds, c.id) = <<>>
                 THEN Went(stored, files, nextId, <<>>, Fail(ErrNotFound))
                 ELSE Went(stored, files, nextId,
                           <<[c EXCEPT !.pc = "delete", !.sounds = sounds]>>,
                           <<>>)
        ELSE IF c.pc = "delete"
        THEN Went(stored,
                  IF outcome = "reject" THEN files
                  ELSE files \ {Find(c.sounds, c.id)[1].uri},
                  nextId,
                  <<[c EXCEPT !.pc = "write",
                              !.sounds = Filtered(@, c.id)]>>, <<>>)
        ELSE IF outcome = "reject"
        THEN Went(stored, files, nextId, <<>>, Fail(ErrDelete))
        ELSE Went(Stringify(c.sounds), files, nextId, <<>>,
                  <<Ret("deleteSound", c.id, 0, TRUE, NoError, <<>>, 0)>>)

\* getSoundCount() after its read has settled
GetSoundCountResumed(c, outcome) ==
    Went(stored, files, nextId, <<>>,
         <<Ret("getSoundCount", 0, 0, TRUE, NoError, <<>>,
               Len(GetSounds(stored, outcome)))>>)

StoreResumed(c, outcome) ==
    IF c.op = "saveSound" THEN SaveSoundResumed(c, outcome)
    ELSE IF c.op = "updateSoundName" THEN UpdateSoundNameResumed(c, outcome)
    ELSE IF c.op = "deleteSound" THEN DeleteSoundResumed(c, outcome)
    ELSE GetSoundCountResumed(c, outcome)

\* The Library screen's list after setSounds(prev => prev.map(...))
ListRenamed(sounds, id, name) ==
    [i \in 1..Len(sounds) |->
        IF sounds[i].id = id THEN [sounds[i] EXCEPT !.name = name]
        ELSE sounds[i]]

\* The handler that awaited the store call c goes on with what the call
\* returned: handleSaveSound and loadSoundCount on the Player screen, the
\* Delete button of handleDeleteSound and saveEditedName on the Library
\* screen.
Returned(c, ret) ==
    LET rest == pending (-) SetToBag({c})
        player == c.screen = "player"
    IN  /\ pending' =
            IF player /\ ret.op = "saveSound" /\ ret.success
            THEN rest (+) SetToBag({StoreCall("getSoundCount", 0, "", "player")})
            ELSE rest
        /\ soundCount' =
            IF ret.op = "getSoundCount" THEN ret.count ELSE soundCount
        /\ isSaving' =
            IF player /\ ret.op = "saveSound" THEN ret.success
            ELSE IF player /\ ret.op = "getSoundCount" THEN FALSE
            ELSE isSaving
        /\ alert' =
            IF ~ret.success THEN "Error"
            ELSE IF player /\ ret.op = "getSoundCount" THEN "Success"
            ELSE alert
        /\ libSounds' =
            IF ~ret.success THEN libSounds
            ELSE IF ret.op = "deleteSound" THEN Filtered(libSounds, c.id)
            ELSE IF ret.op = "updateSoundName"
            THEN ListRenamed(libSounds, c.id, c.name)
            ELSE libSounds
        /\ Commit(IF ret.op = "deleteSound" /\ ret.success
                     /\ c.playing = c.id /\ c.snd # NoHandle
                  THEN Park(Session, Task("handleDeleteSound", c.snd, "user",
                                          c.id), "stop", c.snd)
                  ELSE Session)

\* The platform call the store call c awaits settles.
StoreResumeStep(c, outcome) ==
    LET d == StoreResumed(c, outcome) IN
    /\ faults + Rejects(<<outcome>>) <= MaxFaults
    /\ d.nextId <= MaxIds + 1
    /\ faults' = faults + Rejects(<<outcome>>)
    /\ stored' = d.stored
    /\ files' = d.files
    /\ nextId' = d.nextId
    /\ IF d.ret = <<>>
       THEN /\ pending' = (pending (-) SetToBag({c})) (+) SetToBag({d.next[1]})
            /\ UNCHANGED <<last, ledger, soundCount, isSaving, alert,
                           libSounds, appState, sessionVars>>
       ELSE /\ last' = d.ret[1]
            /\ ledger' = LedgerAfter(d.ret[1], c.name)
            /\ Returned(c, d.ret[1])
    /\ UNCHANGED <<intact, deleted, run, recording, now, settingVars,
                   recVars>>

StoreResumes ==
    \E c \in BagToSet(pending), outcome \in Outcomes :
        StoreResumeStep(c, outcome)

\* A handler calls a function of the store and awaits it.
Calls(c) ==
    /\ BagCardinality(pending) < MaxCalls
    /\ pending' = pending (+) SetToBag({c})

\* handleSaveSound with soundName "Storm"
HandleSaveSound ==
    /\ selectedSound
    /\ IF soundCount >= MAX_SOUNDS
       THEN /\ alert' = "Limit Reached"
            /\ alert' # alert
            /\ UNCHANGED <<pending, isSaving>>
       ELSE /\ Calls(StoreCall("saveSound", 0, "Storm", "player"))
            /\ isSaving' = TRUE
            /\ UNCHANGED alert
    /\ UNCHANGED <<soundCount, recVars, storeVars, faults, screenVars>>

\* The button of the save modal, disabled while isSaving
SavePressed == ~isSaving /\ HandleSaveSound

\* onSubmitEditing of the name field of the save modal
SaveSubmitted == isSaving /\ HandleSaveSound

\* The Delete button of the Alert handleDeleteSound shows for a sound of
\* the list.
DeleteConfirmedStep(soundId) ==
    /\ \E i \in 1..Len(libSounds) : libSounds[i].id = soundId
    /\ Calls(StoreCall("deleteSound", soundId, "", "library"))
    /\ UNCHANGED <<soundCount, isSaving, alert, recVars, storeVars, faults,
                   screenVars>>

DeleteConfirmed == \E soundId \in ListedIds : DeleteConfirmedStep(soundId)

\* saveEditedName with editingName "Storm"; its button is disabled while
\* an earlier saveEditedName awaits (the Library screen's isSaving).
SaveEditedNameStep(soundId) ==
    /\ \E i \in 1..Len(libSounds) : libSounds[i].id = soundId
    /\ \A c \in BagToSet(pending) : c.op # "updateSoundName"
    /\ Calls(StoreCall("updateSoundName", soundId, "Storm", "library"))
    /\ UNCHANGED <<soundCount, isSaving, alert, recVars, storeVars, faults,
                   screenVars>>

SaveEditedName == \E soundId \in ListedIds : SaveEditedNameStep(soundId)

\* Both screens are mounted on a library with one free place: the Player
\* screen has a sound selected and has loaded soundCount, the Library
\* screen has loaded its list.
Placed ==
    /\ stored = Stringify(Saved)
    /\ files = {Saved[i].uri : i \in 1..Len(Saved)}
    /\ nextId = MAX_SOUNDS
    /\ last = Ret("getSoundCount", 0, 0, TRUE, NoError, <<>>, Len(Saved))
    /\ faults = 0
    /\ ledger = Saved
    /\ intact = {}
    /\ deleted = {}
    /\ run = 0
    /\ now = Midnight
    /\ appState = "active"
    /\ selectedSound = TRUE
    /\ timerMode = "indefinite"
    /\ durationHours = 0
    /\ durationMinutes = 5
    /\ alarmTime = Null
    /\ playerSound = NoHandle
    /\ soundRef = NoHandle
    /\ subSound = NoHandle
    /\ isPlaying = FALSE
    /\ remainingTime = Null
    /\ timerEndTime = Null
    /\ timerInterval = Null
    /\ loaded = {}
    /\ tasks = EmptyBag
    /\ stops = 0
    /\ libSounds = Saved
    /\ currentSound = NoHandle
    /\ playingId = 0
    /\ pending = EmptyBag
    /\ soundCount = Len(Saved)
    /\ isSaving = FALSE
    /\ alert = ""
    /\ recorder = NoHandle
    /\ isRecording = FALSE
    /\ recordingDuration = 0
    /\ recordingInterval = Null
    /\ recTasks = EmptyBag
    /\ elapsed = 0
    /\ native = NoHandle

InitShared == Placed /\ recording = FALSE

InitSharedHist == Placed /\ recording = TRUE

NextShared ==
    \/ SavePressed
    \/ SaveSubmitted
    \/ DeleteConfirmed
    \/ SaveEditedName
    \/ StoreResumes

SpecShared == InitShared /\ [][NextShared]_vars

SpecSharedHist == InitSharedHist /\ [][NextShared]_vars

\* Saves and deletes only.
NextSaves ==
    \/ SavePressed
    \/ SaveSubmitted
    \/ DeleteConfirmed
    \/ StoreResumes

SpecSaves == InitShared /\ [][NextSaves]_vars

\* The screens used one store call at a time: a button is pressed only
\* when no call is awaiting.
SaveAlone == pending = EmptyBag /\ SavePressed

DeleteAlone == pending = EmptyBag /\ DeleteConfirmed

NextTurns ==
    \/ SaveAlone
    \/ DeleteAlone
    \/ StoreResumes

SpecTurns == InitShared /\ [][NextTurns]_vars

----------------------------------------------------------------------------
(* The Library screen: play taps, deletes and audio loads that fail *)

LibraryDeleteResumes ==
    \E t \in BagToSet(tasks), outcome \in Outcomes :
        t.fn = "handleDeleteSound" /\ ResumeStep(t, outcome)

\* No handler of the Library screen is awaiting.
Settled == tasks = EmptyBag /\ pending = EmptyBag

\* The buttons pressed one at a time, each when the handler of the press
\* before has run to its end.
LibraryPlayAlone == Settled /\ LibraryPlay

LibraryDeleteAlone == Settled /\ DeleteConfirmed

NextLibrary ==
    \/ LibraryPlayAlone
    \/ LibraryPlayResumes
    \/ LibraryDeleteAlone
    \/ StoreResumes
    \/ LibraryDeleteResumes

SpecLibrary == InitShared /\ [][NextLibrary]_vars

----------------------------------------------------------------------------
(* Playback in duration mode, left to the sleep timer *)

\* The values the duration wheels are left at: the ends and a step inside
\* each wheel.
TimedHours == {0, 23}
TimedMinutes == {0, 1, 59}

\* Play is pressed in duration mode, at one of the first instants and
\* while no earlier press is awaiting.
PressPlayTimed ==
    /\ now <= Midnight + MsPerMinute
    /\ tasks = EmptyBag
    /\ \E hours \in TimedHours, minutes \in TimedMinutes :
            PressPlayStep("duration", hours, minutes)

\* Time passes up to the end instant of the timer.
Elapse ==
    /\ timerEndTime # Null
    /\ now < timerEndTime
    /\ now' = timerEndTime
    /\ UNCHANGED <<sideVars, storeVars, faults, appState, settingVars,
                   sessionVars, libSounds>>

\* A tick or a return to the foreground that is delivered at or after the
\* end instant.
ExpiredCheck ==
    /\ timerEndTime # Null
    /\ now >= timerEndTime
    /\ (Tick \/ AppActive)

\* The user selects a sound and starts playback and never stops it.
NextTimed ==
    \/ SelectSound
    \/ PressPlayTimed
    \/ PlayResumes
    \/ StopResumes
    \/ Tick
    \/ AppBackground
    \/ AppActive
    \/ Advance
    \/ Elapse

\* Time goes on, a check is delivered once the end instant has passed, and
\* the native calls stopSound awaits settle.
FairTimed ==
    /\ WF_vars(Elapse)
    /\ WF_vars(ExpiredCheck)
    /\ WF_vars(StopResumes)

SpecTimed == Init /\ [][NextTimed]_vars /\ FairTimed

----------------------------------------------------------------------------
(* Recording on the Player screen *)

\* A call of startRecording or stopRecording that awaits the native call
\* pc; rec is the state `recording` of the render the function was created
\* in.
RecTask(fn, pc, rec) == [fn |-> fn, pc |-> pc, rec |-> rec]

\* The object Audio.Recording.createAsync resolves with, named by the
\* first number that names no recording referred to.
NewRecording ==
    LET used == {recorder, native, recordingInterval}
                \cup {t.rec : t \in BagToSet(recTasks)}
    IN  CHOOSE h \in 1..(MaxTasks + 4) :
            h \notin used /\ \A g \in 1..(h - 1) : g \in used

\* stopRecording is called, in a render whose `recording` is rec: it
\* returns at once without one, else clears the interval and awaits
\* getStatusAsync.
StopRecordingInvoked(rec) ==
    IF rec = NoHandle
    THEN UNCHANGED <<recordingInterval, isRecording, recTasks>>
    ELSE /\ BagCardinality(recTasks) < MaxTasks
         /\ recordingInterval' = Null
         /\ isRecording' = FALSE
         /\ recTasks' = recTasks (+) SetToBag({RecTask("stopRecording",
                                                       "status", rec)})

\* The record button while nothing is being recorded: startRecording, up
\* to its await of the permission, the audio mode and createAsync.
StartRecordingPressed ==
    /\ ~isRecording
    /\ BagCardinality(recTasks) < MaxTasks
    /\ recTasks' = recTasks (+) SetToBag({RecTask("startRecording", "create",
                                                  recorder)})
    /\ UNCHANGED <<recorder, isRecording, recordingDuration,
                   recordingInterval, elapsed, native>>
    /\ UNCHANGED <<formVars, storeVars, faults, screenVars>>

\* The record button while recording: stopRecording of the current render.
StopRecordingPressed ==
    /\ isRecording
    /\ recorder # NoHandle
    /\ StopRecordingInvoked(recorder)
    /\ UNCHANGED <<recorder, recordingDuration, elapsed, native>>
    /\ UNCHANGED <<formVars, storeVars, faults, screenVars>>

\* startRecording resumes.  The platform prepares one recording at a time:
\* createAsync rejects while another is being made.  A rejection, or a
\* permission that is not granted, ends the call.
StartRecordingResumed(t, outcome) ==
    /\ recTasks' = recTasks (-) SetToBag({t})
    /\ IF outcome = "reject" \/ native # NoHandle
       THEN UNCHANGED <<recorder, isRecording, recordingDuration,
                        recordingInterval, elapsed, native>>
       ELSE /\ recorder' = NewRecording
            /\ native' = NewRecording
            /\ elapsed' = 0
            /\ isRecording' = TRUE
            /\ recordingDuration' = 0
            \* the callback calls the stopRecording of the render that
            \* startRecording was created in
            /\ recordingInterval' = t.rec
    /\ UNCHANGED selectedSound

\* stopRecording resumes behind getStatusAsync, stopAndUnloadAsync or
\* setAudioModeAsync.  A rejection, and stopAndUnloadAsync on a recording
\* that is not being made, goes to the catch.
StopRecordingResumed(t, outcome) ==
    LET rest == recTasks (-) SetToBag({t}) IN
    /\ UNCHANGED <<recordingDuration, recordingInterval>>
    /\ IF outcome = "reject" \/ (t.pc = "unload" /\ native # t.rec)
       THEN /\ recTasks' = rest
            /\ recorder' = NoHandle
            /\ isRecording' = FALSE
            /\ UNCHANGED <<elapsed, native, selectedSound>>
       ELSE IF t.pc = "status"
       THEN /\ recTasks' = rest (+) SetToBag({[t EXCEPT !.pc = "unload"]})
            /\ UNCHANGED <<recorder, isRecording, elapsed, native,
                           selectedSound>>
       ELSE IF t.pc = "unload"
       THEN /\ recTasks' = rest (+) SetToBag({[t EXCEPT !.pc = "mode"]})
            /\ native' = NoHandle
            /\ elapsed' = 0
            /\ UNCHANGED <<recorder, isRecording, selectedSound>>
       ELSE /\ recTasks' = rest
            /\ selectedSound' = TRUE
            /\ recorder' = NoHandle
            /\ UNCHANGED <<isRecording, elapsed, native>>

\* A native call of the recorder settles.
RecResumeStep(t, outcome) ==
    /\ faults + Rejects(<<outcome>>) <= MaxFaults
    /\ faults' = faults + Rejects(<<outcome>>)
    /\ IF t.fn = "startRecording" THEN StartRecordingResumed(t, outcome)
       ELSE StopRecordingResumed(t, outcome)
    /\ UNCHANGED <<formVars, storeVars, now, appState, timerMode,
                   durationHours, durationMinutes, alarmTime, sessionVars,
                   libSounds>>

StartRecordingResumes ==
    \E t \in BagToSet(recTasks), outcome \in Outcomes :
        t.fn = "startRecording" /\ RecResumeStep(t, outcome)

StopRecordingResumes ==
    \E t \in BagToSet(recTasks), outcome \in Outcomes :
        t.fn = "stopRecording" /\ RecResumeStep(t, outcome)

\* A second passes and the callback of the recording interval runs.
RecordingTick ==
    /\ recordingInterval # Null
    /\ elapsed < MAX_DURATION_SECONDS + MaxOverrun
    /\ elapsed' = IF native # NoHandle THEN elapsed + 1 ELSE elapsed
    /\ IF recordingDuration >= MAX_DURATION_SECONDS - 1
       THEN /\ StopRecordingInvoked(recordingInterval)
            /\ UNCHANGED recordingDuration
       ELSE /\ recordingDuration' = recordingDuration + 1
            /\ UNCHANGED <<recordingInterval, isRecording, recTasks>>
    /\ UNCHANGED <<recorder, native>>
    /\ UNCHANGED <<formVars, storeVars, faults, screenVars>>

NextRecorder ==
    \/ StartRecordingPressed
    \/ StopRecordingPressed
    \/ StartRecordingResumes
    \/ StopRecordingResumes
    \/ RecordingTick

SpecRecorder == Init /\ [][NextRecorder]_vars

\* The step is a call of the function op; last' then holds the id it was
\* given and what it returned.
Called(op) == last'.op = op

\* The persisted index as a reader whose read succeeds sees it.
Index == GetSounds(stored, "resolve")

IndexIds == {Index[i].id : i \in 1..Len(Index)}

\* C1: after any sequence of calls issued one at a time the persisted index
\* holds at most MAX_SOUNDS entries (and getSoundCount reports no more); in a
\* run from the empty store made of saves within the duration limit whose
\* platform calls all succeed, the first MAX_SOUNDS saves succeed and each
\* later one is rejected with the capacity error.
C1_CountWithinLimit ==
    /\ Len(Index) <= MAX_SOUNDS
    /\ last.op = "getSoundCount" => last.count <= MAX_SOUNDS
    /\ run >= 0 =>
        /\ Len(Index) = IF run <= MAX_SOUNDS THEN run ELSE MAX_SOUNDS
        /\ (last.op = "saveSound" /\ run <= MAX_SOUNDS) => last.success
        /\ (last.op = "saveSound" /\ run > MAX_SOUNDS) =>
                (~last.success /\ last.error = ErrCapacity)

\* The sixth save of such a run has been rejected.
C1_Witness ==
    /\ run = MAX_SOUNDS + 1
    /\ last.op = "saveSound"
    /\ last.error = ErrCapacity
    /\ Len(Index) = MAX_SOUNDS

\* C2 (as claimed): a saveSound call made while the persisted index holds
\* MAX_SOUNDS entries returns the capacity error, reaches neither generateId
\* nor the copy, and leaves the stored item and the files as they were.
C2_FullStoreRejects ==
    [][(Called("saveSound") /\ Len(Index) >= MAX_SOUNDS)
       => /\ ~last'.success
          /\ last'.error = ErrCapacity
          /\ nextId' = nextId
          /\ files' = files
          /\ stored' = stored]_vars

\* C3 (as claimed): every saveSound call with a duration above
\* MAX_DURATION_SECONDS returns the duration error, in every store state,
\* copies no file and creates no entry.
C3_AlwaysDurationError ==
    [][(Called("saveSound") /\ last'.duration > MAX_DURATION_SECONDS)
       => /\ ~last'.success
          /\ last'.error = ErrDuration
          /\ nextId' = nextId
          /\ files' = files
          /\ stored' = stored]_vars

\* C3 (amended): every saveSound call with a duration above
\* MAX_DURATION_SECONDS fails, copies no file and creates no entry; its
\* error is the duration error or, only when the persisted index holds
\* MAX_SOUNDS entries, the capacity error.
C3_DurationRejected ==
    [][(Called("saveSound") /\ last'.duration > MAX_DURATION_SECONDS)
       => /\ ~last'.success
          /\ last'.error \in {ErrDuration, ErrCapacity}
          /\ last'.error = ErrCapacity => Len(Index) >= MAX_SOUNDS
          /\ nextId' = nextId
          /\ files' = files
          /\ stored' = stored]_vars

\* A save was refused for its duration while the store held sounds and room.
C3_Witness ==
    /\ last.op = "saveSound"
    /\ last.duration > MAX_DURATION_SECONDS
    /\ last.error = ErrDuration
    /\ Len(Index) \in 1..(MAX_SOUNDS - 1)
    /\ files # {}

\* C4: every entry of the persisted index has a duration of at most
\* MAX_DURATION_SECONDS.
C4_DurationsWithinLimit ==
    \A i \in 1..Len(Index) : Index[i].duration <= MAX_DURATION_SECONDS

\* A sound of the longest duration allowed is stored and has been renamed.
C4_Witness ==
    /\ last.op = "updateSoundName"
    /\ last.success
    /\ \E i \in 1..Len(Index) :
        Index[i].id = last.id /\ Index[i].duration = MAX_DURATION_SECONDS

\* C5 (as claimed), for the getSound calls whose own read succeeds: a sound
\* that saveSound returned, and that no reported rename or delete has
\* touched since, is what getSound returns for its id.
C5_SavedIsReturned ==
    [][(Called("getSound") /\ GetSoundStep(last'.id, "resolve"))
       => \A e \in intact : e.id = last'.id => last'.val = <<e>>]_vars

\* C6: once deleteSound(id) has reported success, getSound(id) returns null
\* and deleteSound(id) returns the not-found error.
C6_DeletedStaysGone ==
    [][/\ (Called("getSound") /\ last'.id \in deleted)
          => last'.val = <<>>
       /\ (Called("deleteSound") /\ last'.id \in deleted)
          => (~last'.success /\ last'.error = ErrNotFound)]_vars

\* A second deleteSound of a deleted id has returned not-found while other
\* sounds are stored.
C6_Witness ==
    /\ last.op = "deleteSound"
    /\ last.id \in deleted
    /\ last.error = ErrNotFound
    /\ Index # <<>>

\* C7: a successful updateSoundName(id, newName) leaves the files alone and
\* the index with the same entries in the same order, the entry with that id
\* differing in its name only, which is newName.
C7_RenameChangesNameOnly ==
    [][(Called("updateSoundName") /\ last'.success) =>
       \A newName \in Names, rd \in Outcomes, wr \in Outcomes :
            UpdateSoundNameStep(last'.id, newName, rd, wr)
            => /\ files' = files
               /\ nextId' = nextId
               /\ Len(Index') = Len(Index)
               /\ \A i \in 1..Len(Index) :
                    /\ Index'[i].id = Index[i].id
                    /\ Index'[i].uri = Index[i].uri
                    /\ Index'[i].duration = Index[i].duration
                    /\ Index'[i].createdAt = Index[i].createdAt
                    /\ Index'[i].name =
                         IF Index[i].id = last'.id THEN newName
                         ELSE Index[i].name]_vars

\* The second of several sounds has been renamed to a name the first one
\* does not have.
C7_Witness ==
    /\ last.op = "updateSoundName"
    /\ last.success
    /\ Len(Index) >= 2
    /\ Index[2].id = last.id
    /\ Index[2].name # Index[1].name

\* C8 (as claimed): a getSounds call whose read succeeds, as after a
\* restart, returns the sounds reported saved and not reported deleted, with
\* the names last reported, in the order of their saves.
C8_ReloadYieldsSurvivors ==
    [][(Called("getSounds") /\ GetSoundsStep("resolve"))
       => last'.val = ledger]_vars

\* C9: updateSoundName and deleteSound given an id that no entry of the
\* persisted index has return the not-found error and leave the stored item
\* and the files as they were.
C9_UnknownIdNotFound ==
    [][(/\ Called("updateSoundName") \/ Called("deleteSound")
        /\ last'.id \notin IndexIds)
            => /\ ~last'.success
               /\ last'.error = ErrNotFound
               /\ stored' = stored
               /\ files' = files]_vars

\* A rename or delete of an id that was never handed out has returned
\* not-found while sounds are stored.
C9_Witness ==
    /\ last.op \in {"updateSoundName", "deleteSound"}
    /\ last.id = 0
    /\ last.error = ErrNotFound
    /\ Index # <<>>
    /\ files # {}

\* C10 (as claimed): the uri of every entry of the persisted index is the
\* uri of a file of the document directory.
C10_EntriesHaveFiles ==
    \A i \in 1..Len(Index) : Index[i].uri \in files

C12_FileFailureSwallowed ==
    [][(Called("deleteSound") /\ last'.id \in IndexIds) =>
       /\ \A rd \in Outcomes, wr \in Outcomes :
            /\ DeleteSoundCall(last'.id, rd, "reject", wr).ret
                = DeleteSoundCall(last'.id, rd, "resolve", wr).ret
            /\ DeleteSoundCall(last'.id, rd, "reject", wr).stored
                = DeleteSoundCall(last'.id, rd, "resolve", wr).stored
       /\ \A dl \in Outcomes :
            DeleteSoundStep(last'.id, "resolve", dl, "resolve")
            => /\ last'.success
               /\ last'.id \notin IndexIds'
               /\ Index' = Filtered(Index, last'.id)]_vars

\* A delete has reported success and removed the entry although the file
\* could not be deleted: the file of that id is still there.
C12_Witness ==
    /\ last.op = "deleteSound"
    /\ last.success
    /\ last.id \notin IndexIds
    /\ \E u \in files : u[1] = last.id
    /\ Index # <<>>

\* C15: setAlarmFromPicker(hours, minutes) gives an alarm instant that is
\* strictly later than the current time, at most a day later, and at
\* hours:minutes:00.000 of its day: today's if that is later than now,
\* otherwise the next day's.
C15_AlarmInFuture ==
    [][\A hours \in HoursData, minutes \in MinuteSamples :
        SetAlarmFromPickerStep(hours, minutes)
        => /\ alarmTime' > now
           /\ alarmTime' - now <= MsPerDay
           /\ GetHours(alarmTime') = hours
           /\ GetMinutes(alarmTime') = minutes
           /\ alarmTime' % MsPerMinute = 0
           /\ (alarmTime' - now > 0 /\ alarmTime' \div MsPerDay = now \div MsPerDay)
              \/ (/\ alarmTime' \div MsPerDay = (now \div MsPerDay) + 1
                  /\ alarmTime' - MsPerDay <= now)]_vars

\* The wheels asked for the very instant the clock showed: the alarm is a
\* day later.
C15_Witness ==
    /\ alarmTime = now + MsPerDay
    /\ GetHours(now) = 12

\* The stopSound calls that are awaiting.
StopTasks == {t \in BagToSet(tasks) : t.fn = "stopSound"}

\* The playSound calls of the Player screen that are awaiting.
PlayTasks == {t \in BagToSet(tasks) : t.fn = "playSound"}

\* The timer is armed: playback is on, with an end instant that the
\* interval callback checks.
TimerArmed ==
    /\ isPlaying
    /\ timerEndTime # Null
    /\ timerInterval = timerEndTime

\* stopSound has finished its last statement.
SessionReset ==
    /\ ~isPlaying
    /\ remainingTime = Null
    /\ timerEndTime = Null
    /\ timerInterval = Null

\* C13 (as claimed): a tick or a resume check of an armed timer before its
\* end instant E leaves the timer armed and shows ceil((E - now) / 1000)
\* seconds; the checks of one arming call stopSound at most once, whether
\* the tick, the resume check or both see that E has passed.
C13_StopExactlyOnce ==
    [][/\ ((Tick \/ AppActive) /\ TimerArmed /\ now < timerEndTime)
          => /\ TimerArmed'
             /\ timerEndTime' = timerEndTime
             /\ remainingTime' = CeilSeconds(timerEndTime - now)
       /\ stops' <= 1]_vars

\* C14: a tick or a resume check of an armed timer that is delivered at or
\* after the end instant calls stopSound, whatever checks were or were not
\* delivered before: a stopSound call of the timer is then awaiting, or
\* has run to its end.
C14_FirstCheckStops ==
    [][((Tick \/ AppActive) /\ TimerArmed /\ now >= timerEndTime)
       => /\ stops' >= 1
          /\ \/ \E t \in StopTasks' : t.by \in {"timer", "resume"}
             \/ SessionReset']_vars

\* No check was delivered from the arming for one minute until the end
\* instant had come (the time shown is still the minute the timer was
\* armed with); the resume check then called stopSound.
C14_Witness ==
    /\ now >= timerEndTime
    /\ timerEndTime # Null
    /\ remainingTime = SecondsPerMinute
    /\ stops = 1
    /\ \E t \in StopTasks : t.by = "resume"

\* C16 (as claimed): when a playSound call made in alarm mode has created
\* its handle, the timer is armed with an end instant later than now.
C16_AlarmArms ==
    [][\A t \in PlayTasks :
        (t.mode = "alarm" /\ t.pc = "create" /\ ResumeStep(t, "resolve"))
        => /\ TimerArmed'
           /\ timerEndTime' > now]_vars

\* C18 (as claimed): once the user's stopSound call has begun, the interval
\* is cancelled before the handle is released, and no tick runs.
C18_CancelBeforeRelease ==
    [][/\ \A t \in StopTasks' : t.by = "user" => timerInterval' = Null
       /\ Tick => \A t \in StopTasks : t.by # "user"]_vars

\* C19: a stopSound call whose stopAsync or unloadAsync rejects goes on:
\* from the `sound` part to the soundRef part when soundRef.current is
\* set, otherwise to its end; and every stopSound call that ends leaves
\* isPlaying false, remainingTime and timerEndTime null and the interval
\* cancelled.
C19_StopAlwaysResets ==
    [][\A t \in StopTasks :
        /\ ResumeStep(t, "reject")
           => IF t.pc \in {"stopState", "unloadState"} /\ soundRef # NoHandle
              THEN /\ playerSound' = NoHandle
                   /\ \E u \in StopTasks' : u.pc = "stopRef" /\ u.by = t.by
              ELSE SessionReset'
        /\ \A outcome \in Outcomes :
            (/\ ResumeStep(t, outcome)
             /\ BagCardinality(tasks') < BagCardinality(tasks))
            => SessionReset']_vars

\* stopAsync on `sound` has rejected while the timer was armed: the handle
\* is still loaded, `sound` is null and the call is at the soundRef part.
C19_Witness ==
    /\ playerSound = NoHandle
    /\ timerInterval # Null
    /\ \E t \in StopTasks :
        t.pc = "stopRef" /\ t.snd \in loaded /\ t.snd = soundRef

\* C20 (as claimed): when a playSound call made in indefinite mode has
\* created its handle, timerEndTime and remainingTime are null and there is
\* no interval.
C20_IndefiniteNeverArms ==
    [][\A t \in PlayTasks :
        (t.mode = "indefinite" /\ t.pc = "create" /\ ResumeStep(t, "resolve"))
        => /\ timerEndTime' = Null
           /\ remainingTime' = Null
           /\ timerInterval' = Null]_vars

\* C17 (as claimed): at most one audio handle is loaded.
C17_OneHandle == Cardinality(loaded) <= 1

\* The index cannot be read as it is stored: there is no item, or JSON.parse
\* throws on its text.
Unreadable == ~stored.present \/ ~Parses(stored.data)

C26_SaveOnlyAppends ==
    [][(Called("saveSound") /\ last'.success)
       => /\ Len(Index') = Len(Index) + 1
          /\ \A i \in 1..Len(Index) : Index'[i] = Index[i]
          /\ Index'[Len(Index')] = last'.val[1]]_vars

\* C21 (as claimed): a stopSound call of the user that ends leaves no
\* interval, timerEndTime and remainingTime null; and a playback that has no
\* timer of its own has no stopSound call of an earlier timer awaiting that
\* would stop it (stops <= 1: that timer has called stopSound once at most).
C21_StoppedTimerIsGone ==
    [][/\ \A t \in StopTasks :
            (/\ t.by = "user"
             /\ \E outcome \in Outcomes : ResumeStep(t, outcome)
             /\ BagCardinality(tasks') < BagCardinality(tasks))
            => SessionReset'
       /\ (isPlaying' /\ timerEndTime' = Null /\ timerInterval' = Null
           /\ stops' <= 1)
          => \A t \in StopTasks' : t.by = "user"]_vars

\* The store calls awaiting that change the index.
Mutations == {c \in BagToSet(pending) : c.op # "getSoundCount"}

\* C22 (as claimed): at most one saveSound, updateSoundName or deleteSound
\* call of the screens is awaiting its I/O at any time.
C22_OneMutationAtATime ==
    /\ Cardinality(Mutations) <= 1
    /\ \A c \in Mutations : CopiesIn(c, pending) = 1

\* C27: however saveSound calls interleave at their awaits, with each other
\* and with deleteSound calls, the persisted index holds at most MAX_SOUNDS
\* entries.
C27_InterleavedWithinLimit == Len(Index) <= MAX_SOUNDS

\* Two saveSound calls have both read an index with one free place, and
\* both have written.
C27_Witness ==
    /\ Len(Index) = MAX_SOUNDS
    /\ Cardinality(files) > MAX_SOUNDS
    /\ last.op = "saveSound"
    /\ last.success
    /\ faults = 0

\* C28 (as claimed): when no call is awaiting and no platform call has
\* rejected, the persisted index holds what the calls that returned success
\* were told: every saved sound, under its last name, and no deleted one.
C28_BothEffectsPresent ==
    (pending = EmptyBag /\ faults = 0) => Index = ledger

\* C29 (as claimed): handleSaveSound refuses with 'Limit Reached' only when
\* the persisted index holds MAX_SOUNDS entries.
C29_RefusedOnlyWhenFull ==
    [][(alert' = "Limit Reached" /\ alert # "Limit Reached")
       => Len(Index) >= MAX_SOUNDS]_vars

\* C30: on the Library screen, whenever no handler is awaiting, playingId
\* is set exactly when currentSound holds a handle, and the sound it names
\* is in the list displayed.
C30_PlayingIdMatches ==
    Settled =>
        /\ (playingId # 0) <=> (currentSound # NoHandle)
        /\ playingId # 0 =>
                \E i \in 1..Len(libSounds) : libSounds[i].id = playingId

\* C24: the recording in progress never runs for more than
\* MAX_DURATION_SECONDS seconds.
C24_WithinLimit == elapsed <= MAX_DURATION_SECONDS

\* C25: playback started in duration mode, with any duration of the
\* wheels, is stopped in the end without the user stopping it, given that
\* a tick or a return to the foreground is delivered after the end
\* instant.
C25_DurationPlaybackStops ==
    (isPlaying /\ timerMode = "duration") ~> ~isPlaying

\* A playback of 23 h 59 min has been stopped by its timer.
C25_Witness ==
    /\ ~isPlaying
    /\ tasks = EmptyBag
    /\ stops >= 1
    /\ durationHours = 23
    /\ durationMinutes = 59
    /\ now >= Midnight + 23 * MsPerHour + 59 * MsPerMinute
    /\ loaded = {}

====
